---- MODULE Spec2Model ----
(***************************************************************************)
(* Model of mutpy/controller.py: the HOM strategies (generate and          *)
(* remove_bad_mutations), MutationScore and MutationController.            *)
(*                                                                         *)
(* SpecHOM runs one strategy's generate() generator on an input list of    *)
(* mutations; Spec runs MutationController.run(); SpecScore calls the      *)
(* methods of a MutationScore; SpecSubprocess runs the isolated execution  *)
(* of one mutant; SpecSkip applies mark_not_covered_tests_as_skip; and     *)
(* SpecMutate runs HighOrderMutator.mutate.                                *)
(***************************************************************************)
EXTENDS Integers, Sequences, FiniteSets, TLC

(* ------------------------------------------------------------------ *)
(* Bounds                                                              *)
(* ------------------------------------------------------------------ *)

\* longest list of mutations handed to a strategy
MaxLen == 3

\* most test modules the test loader yields
NumTests == 2

\* most target modules the target loader yields
NumTargets == 2

\* most mutants the mutator yields for one target
MaxMutants == 2

\* most test cases a mutant's suite holds
NumTestCases == 2

\* longest baseline duration of a test module, in seconds
MaxDuration == 2

\* longest time, in seconds, a child that reports a result needs for it
MaxChildTime == 3

(* ------------------------------------------------------------------ *)
(* Mutations, nodes and operators                                      *)
(* ------------------------------------------------------------------ *)

\* The AST the mutations target: ParentOf[n] is the parent of node n, 0 for
\* the root.  Node 1 is the root, 2 and 3 its children, 4 and 5 children of 2.
ParentOf == <<0, 1, 1, 2, 2>>

Nodes == DOMAIN ParentOf

\* the values of HOMStrategy.order tried (2 is the default); no group of
\* mutations of this AST is longer than three
Orders == {1, 2, 3}

\* the mutation operators, in the order utils.sort_operators gives them
SortedOperators == <<"AOR", "COI">>

Operators == {SortedOperators[i] : i \in DOMAIN SortedOperators}

\* node.children: every node below `n` (children, grandchildren, ...)
RECURSIVE Children(_)
Children(n) ==
    LET direct == {c \in Nodes : ParentOf[c] = n}
    IN  direct \cup UNION {Children(c) : c \in direct}

\* A Mutation object is a record [id, node, operator]; `id` is its identity
\* (two mutations are equal only when they are the same object).

\* HighOrderMutator.generate_all_mutations: the lists of n mutations it can
\* return.  It walks the operators in sorted order and appends each
\* operator's mutations, so the list is grouped by operator; the nodes an
\* operator mutates are any nodes, in any order, possibly repeated.
generate_all_mutations(n) ==
    {[i \in 1..n |-> [id |-> i, node |-> nd[i], operator |-> SortedOperators[op[i]]]] :
        nd \in [1..n -> Nodes],
        op \in {o \in [1..n -> DOMAIN SortedOperators] :
                    \A i, j \in 1..n : i < j => o[i] <= o[j]}}

Range(s) == {s[i] : i \in DOMAIN s}

(* ------------------------------------------------------------------ *)
(* Python list operations                                              *)
(* ------------------------------------------------------------------ *)

\* list.remove(x): drops the first element equal to x
RECURSIVE ListRemove(_, _)
ListRemove(s, x) ==
    IF s = <<>> THEN <<>>
    ELSE IF Head(s) = x THEN Tail(s)
    ELSE <<Head(s)>> \o ListRemove(Tail(s), x)

\* PopItem giving the first element whatever the index
PopItem_AlwaysFirst(s, index) == s[1]

\* list.pop(index) for index 0 or -1: the element popped
PopItem(s, index) == IF index = 0 THEN s[1] ELSE s[Len(s)]

\* list.pop(index) for index 0 or -1: the list left
PopRest(s, index) == IF index = 0 THEN Tail(s) ELSE SubSeq(s, 1, Len(s) - 1)

\* insertion of x into a list sorted by key, after the elements of equal key
RECURSIVE InsertByKey(_, _, _)
InsertByKey(s, x, key) ==
    IF s = <<>> THEN <<x>>
    ELSE IF key[x.id] < key[Head(s).id] THEN <<x>> \o s
    ELSE <<Head(s)>> \o InsertByKey(Tail(s), x, key)

\* list.sort(key=lambda x: usage[x]): a stable sort
RECURSIVE SortByKey(_, _)
SortByKey(s, key) ==
    IF s = <<>> THEN <<>>
    ELSE InsertByKey(SortByKey(SubSeq(s, 1, Len(s) - 1), key), s[Len(s)], key)

\* the rearrangements of a list a shuffler may leave
Shuffles(s) ==
    {[i \in DOMAIN s |-> s[p[i]]] :
        p \in {q \in [DOMAIN s -> DOMAIN s] : \A i, j \in DOMAIN s : i # j => q[i] # q[j]}}

(* ------------------------------------------------------------------ *)
(* HOMStrategy.remove_bad_mutations                                    *)
(* ------------------------------------------------------------------ *)

\* IsBadMutation without the test that the candidate lies below the chosen node
IsBadMutation_NoDescendantTest(mutation_to_apply, available_mutation, allow_same_operators) ==
    \/ mutation_to_apply.node = available_mutation.node
    \/ mutation_to_apply.node \in Children(available_mutation.node)
    \/ (~allow_same_operators /\ mutation_to_apply.operator = available_mutation.operator)

\* the condition under which available_mutation is removed
IsBadMutation(mutation_to_apply, available_mutation, allow_same_operators) ==
    \/ mutation_to_apply.node = available_mutation.node
    \/ mutation_to_apply.node \in Children(available_mutation.node)
    \/ available_mutation.node \in Children(mutation_to_apply.node)
    \/ (~allow_same_operators /\ mutation_to_apply.operator = available_mutation.operator)

\* the inner loop: walks a copy of available_mutations, removing from the list
RECURSIVE RemoveBadFor(_, _, _, _)
RemoveBadFor(mutation_to_apply, copy, available_mutations, allow_same_operators) ==
    IF copy = <<>> THEN available_mutations
    ELSE RemoveBadFor(mutation_to_apply, Tail(copy),
                      IF IsBadMutation(mutation_to_apply, Head(copy), allow_same_operators)
                      THEN ListRemove(available_mutations, Head(copy))
                      ELSE available_mutations,
                      allow_same_operators)

\* the outer loop over mutations_to_apply; the value is available_mutations
\* as the call leaves it
RECURSIVE remove_bad_mutations(_, _, _)
remove_bad_mutations(mutations_to_apply, available_mutations, allow_same_operators) ==
    IF mutations_to_apply = <<>> THEN available_mutations
    ELSE remove_bad_mutations(
            Tail(mutations_to_apply),
            RemoveBadFor(Head(mutations_to_apply), available_mutations,
                         available_mutations, allow_same_operators),
            allow_same_operators)

(* ------------------------------------------------------------------ *)
(* State                                                               *)
(* ------------------------------------------------------------------ *)

VARIABLES
    strategy,             \* the HOMStrategy subclass whose generate() runs
    order,                \* HOMStrategy.order
    input,                \* the list passed to generate()
    mutations,            \* generate's working copy of the list
    mutations_to_apply,   \* the group being built
    available_mutations,  \* the candidate pool of the group being built
    index,                \* FirstToLast: the index popped next (0 or -1)
    usage,                \* BetweenOperators: usage[m]
    not_used,             \* BetweenOperators: the mutations never picked
    groups,               \* the groups yielded so far, in order
    shuffled,             \* Random: the list as self.shuffler left it
    shuffler_calls,       \* Random: the calls of self.shuffler made
    hpc                   \* where generate() is: start, outer, inner, done

hvars == <<strategy, order, input, mutations, mutations_to_apply,
           available_mutations, index, usage, not_used, groups, shuffled,
           shuffler_calls, hpc>>

VARIABLES
    pc,                    \* where run() is
    self_mutation_number,  \* MutationController.mutation_number (0: None)
    mutate_covered,        \* MutationController.mutate_covered
    test_modules,          \* the list load_and_check_tests builds
    target,                \* the targets the target loader has yielded so far
    mutants_of_target,     \* the mutants the mutator has yielded for this target
    yielded,               \* the mutants the mutator has yielded in this run
    mutation_number,       \* mutate_module's local: the ordinal of its mutant
    has_score,             \* self.score has been assigned
    score,                 \* self.score (its value means nothing before that)
    notified,              \* notified[k]: notify_<k> calls made on the views
    binding,               \* binding[t][m]: what test module t's reference
                           \* to target m resolves to
    result,                \* run_tests_with_mutant's local `result`
    created,               \* calls of utils.create_module that returned a module
    started,               \* MutationSubprocess.start() calls
    interrupted,           \* a KeyboardInterrupt was raised in this run
    caught,                \* the except clause of run / run_mutation_process taken
    exit_status            \* the status passed to sys.exit, NoExit before

cvars == <<pc, self_mutation_number, mutate_covered, test_modules, target,
           mutants_of_target, yielded, mutation_number, has_score, score,
           notified, binding, result, created, started, interrupted, caught, exit_status>>

VARIABLES
    count_result,          \* what the last call of MutationScore.count() returned
    counted                \* count() was the last method called on the score

scvars == <<count_result, counted>>

VARIABLES
    timeout_factor,        \* MutationController.timeout_factor
    durations,             \* durations[t]: the baseline duration of test module t
    total_duration,        \* create_test_suite's total_duration
    live_time,             \* run_mutation_subprocess's live_time
    child_time,            \* the time the child needs to report a result
    child_hangs,           \* the child never reports a result
    waited,                \* how long get_result(live_time) blocked
    process                \* the calls made on the MutationSubprocess handle

svars == <<timeout_factor, durations, total_duration, live_time, child_time,
           child_hangs, waited, process>>

VARIABLES
    suite,                 \* the suite create_test_suite built for the mutant
    mutant_mutations,      \* the mutations of the mutant
    test_covered_nodes,    \* coverage_result.test_covered_nodes
    skipped,               \* the test cases marked with unittest.skip
    marked                 \* run_tests_with_mutant is past its `if coverage_result`

kvars == <<suite, mutant_mutations, test_covered_nodes, skipped, marked>>

VARIABLES
    mpc,                   \* where HighOrderMutator.mutate is
    hom_groups,            \* the groups self.hom_strategy.generate yields
    requested,             \* the groups requested from the strategy so far
    apply_index,           \* the place of the inner `for` in mutations_to_apply
    generators,            \* mutate's list `generators`
    applied_mutations,     \* mutate's list `applied_mutations`
    mutant,                \* mutate's `mutant`: the AST, as the edits made to it
    pairs,                 \* the (applied_mutations, mutant) pairs yielded
    finish_index,          \* the place of finish_generators' loop
    finished,              \* the generators finished for this group, in order
    assertion              \* the AssertionError raised, "" for none

mvars == <<mpc, hom_groups, requested, apply_index, generators,
           applied_mutations, mutant, pairs, finish_index, finished, assertion>>

\* the state of the parts modelled besides the strategies and run()
ovars == <<scvars, svars, kvars, mvars>>

vars == <<hvars, cvars, ovars>>

StrategyNames == {"FIRST_TO_LAST", "EACH_CHOICE", "BETWEEN_OPERATORS", "RANDOM"}

\* a strategy object on which generate() was called with some list
InitGenerate ==
    /\ strategy \in StrategyNames
    /\ order \in Orders
    /\ input \in UNION {generate_all_mutations(n) : n \in 0..MaxLen}
    /\ mutations = <<>>
    /\ mutations_to_apply = <<>>
    /\ available_mutations = <<>>
    /\ index = 0
    /\ usage = [i \in 1..MaxLen |-> 0]
    /\ not_used = <<>>
    /\ groups = <<>>
    /\ shuffled = <<>>
    /\ shuffler_calls = 0
    /\ hpc = "start"

(* ------------------------------------------------------------------ *)
(* generate(): the parts the strategies share                          *)
(* ------------------------------------------------------------------ *)

\* OuterLoop starting a group whether or not mutations are left
OuterLoop_WithoutTest ==
    /\ hpc = "outer"
    /\ mutations_to_apply' = <<>>
    /\ index' = 0
    /\ available_mutations' = mutations
    /\ hpc' = "inner"
    /\ UNCHANGED <<shuffled, shuffler_calls, strategy, order, input, mutations, usage,
                   not_used, groups>>

\* `while mutations:` of FirstToLast, EachChoice and Random
OuterLoop ==
    /\ hpc = "outer"
    /\ IF mutations # <<>>
       THEN /\ mutations_to_apply' = <<>>
            /\ index' = 0
            /\ available_mutations' = mutations
            /\ hpc' = "inner"
       ELSE /\ hpc' = "done"
            /\ UNCHANGED <<mutations_to_apply, index, available_mutations>>
    /\ UNCHANGED <<shuffled, shuffler_calls, strategy, order, input, mutations, usage, not_used, groups>>

\* MutationsAfterPick with the first element removed, whichever was picked
MutationsAfterPick_RemovesFirst(mutation) == Tail(mutations)

\* the list `mutations` after the pick: mutations.remove(mutation)
MutationsAfterPick(mutation) == ListRemove(mutations, mutation)

\* one turn of the inner `while`, popping at `index`, or the yield after it
InnerLoop(next_index) ==
    /\ hpc = "inner"
    /\ IF Len(mutations_to_apply) < order /\ available_mutations # <<>>
       THEN LET mutation == PopItem(available_mutations, index)
                applied  == Append(mutations_to_apply, mutation)
            IN  /\ mutations_to_apply' = applied
                /\ mutations' = MutationsAfterPick(mutation)
                /\ index' = next_index
                /\ available_mutations' =
                       remove_bad_mutations(applied, PopRest(available_mutations, index), TRUE)
                /\ UNCHANGED <<groups, hpc>>
       ELSE /\ groups' = Append(groups, mutations_to_apply)
            /\ hpc' = "outer"
            /\ UNCHANGED <<mutations, mutations_to_apply, index, available_mutations>>
    /\ UNCHANGED <<shuffled, shuffler_calls, strategy, order, input, usage, not_used>>

(* ------------------------------------------------------------------ *)
(* The four strategies                                                 *)
(* ------------------------------------------------------------------ *)

FirstToLast_generate ==
    /\ strategy = "FIRST_TO_LAST"
    /\ \/ /\ hpc = "start"
          /\ mutations' = input
          /\ hpc' = "outer"
          /\ UNCHANGED <<shuffled, shuffler_calls, strategy, order, input, mutations_to_apply,
                         available_mutations, index, usage, not_used, groups>>
       \/ OuterLoop
       \/ InnerLoop(IF index = -1 THEN 0 ELSE -1)

EachChoice_generate ==
    /\ strategy = "EACH_CHOICE"
    /\ \/ /\ hpc = "start"
          /\ mutations' = input
          /\ hpc' = "outer"
          /\ UNCHANGED <<shuffled, shuffler_calls, strategy, order, input, mutations_to_apply,
                         available_mutations, index, usage, not_used, groups>>
       \/ OuterLoop
       \/ InnerLoop(0)

\* Random_generate popping from the back after the first pick of a group
Random_generate_SecondFromBack ==
    /\ strategy = "RANDOM"
    /\ \/ /\ hpc = "start"
          /\ mutations' \in Shuffles(input)
          /\ shuffled' = mutations'
          /\ shuffler_calls' = shuffler_calls + 1
          /\ hpc' = "outer"
          /\ UNCHANGED <<strategy, order, input, mutations_to_apply,
                         available_mutations, index, usage, not_used, groups>>
       \/ OuterLoop
       \/ InnerLoop(-1)

\* EachChoiceHOMStrategy.generate, one group: the inner `while` run from a
\* group `applied` and a pool `available` until the group is yielded
RECURSIVE EachChoice_group(_, _, _)
EachChoice_group(applied, available, k) ==
    IF Len(applied) < k /\ available # <<>>
    THEN LET mutation == PopItem(available, 0)
             picked   == Append(applied, mutation)
         IN  EachChoice_group(picked,
                              remove_bad_mutations(picked, PopRest(available, 0), TRUE), k)
    ELSE applied

\* a list after list.remove of every element of `group`
RECURSIVE RemoveAll(_, _)
RemoveAll(list, group) ==
    IF group = <<>> THEN list
    ELSE RemoveAll(ListRemove(list, Head(group)), Tail(group))

\* EachChoiceHOMStrategy.generate(p) with order k: the sequence of groups it
\* yields until it is exhausted
RECURSIVE EachChoice_groups(_, _)
EachChoice_groups(p, k) ==
    IF p = <<>> THEN <<>>
    ELSE LET group == EachChoice_group(<<>>, p, k)
         IN  <<group>> \o EachChoice_groups(RemoveAll(p, group), k)

Random_generate ==
    /\ strategy = "RANDOM"
    /\ \/ /\ hpc = "start"
          /\ mutations' \in Shuffles(input)
          /\ shuffled' = mutations'
          /\ shuffler_calls' = shuffler_calls + 1
          /\ hpc' = "outer"
          /\ UNCHANGED <<strategy, order, input, mutations_to_apply,
                         available_mutations, index, usage, not_used, groups>>
       \/ OuterLoop
       \/ InnerLoop(0)

\* usage and not_used after BetweenOperators picks `mutation`
NotUsedAfterPick(mutation) ==
    IF usage[mutation.id] = 0 THEN ListRemove(not_used, mutation) ELSE not_used

\* SortedPool without the sort by usage
SortedPool_Unsorted == mutations

\* the pool BetweenOperators builds a group from
SortedPool == SortByKey(mutations, usage)

BetweenOperators_generate ==
    /\ strategy = "BETWEEN_OPERATORS"
    /\ \/ /\ hpc = "start"
          /\ usage' = [i \in 1..MaxLen |-> 0]
          /\ not_used' = input
          /\ mutations' = input
          /\ hpc' = "outer"
          /\ UNCHANGED <<shuffled, shuffler_calls, strategy, order, input, mutations_to_apply,
                         available_mutations, index, groups>>
       \/ /\ hpc = "outer"
          /\ IF not_used # <<>>
             THEN /\ mutations_to_apply' = <<>>
                  /\ available_mutations' = SortedPool
                  /\ hpc' = "inner"
             ELSE /\ hpc' = "done"
                  /\ UNCHANGED <<mutations_to_apply, available_mutations>>
          /\ UNCHANGED <<shuffled, shuffler_calls, strategy, order, input, mutations, index, usage, not_used, groups>>
       \/ /\ hpc = "inner"
          /\ IF Len(mutations_to_apply) < order /\ available_mutations # <<>>
             THEN LET mutation == PopItem(available_mutations, 0)
                      applied  == Append(mutations_to_apply, mutation)
                  IN  /\ mutations_to_apply' = applied
                      /\ not_used' = NotUsedAfterPick(mutation)
                      /\ usage' = [usage EXCEPT ![mutation.id] = @ + 1]
                      /\ available_mutations' =
                             remove_bad_mutations(applied, PopRest(available_mutations, 0), FALSE)
                      /\ UNCHANGED <<groups, hpc>>
             ELSE /\ groups' = Append(groups, mutations_to_apply)
                  /\ hpc' = "outer"
                  /\ UNCHANGED <<mutations_to_apply, available_mutations, usage, not_used>>
          /\ UNCHANGED <<shuffled, shuffler_calls, strategy, order, input, mutations, index>>

NextHOM ==
    \/ FirstToLast_generate /\ UNCHANGED <<cvars, ovars>>
    \/ EachChoice_generate /\ UNCHANGED <<cvars, ovars>>
    \/ Random_generate /\ UNCHANGED <<cvars, ovars>>
    \/ BetweenOperators_generate /\ UNCHANGED <<cvars, ovars>>

(* ------------------------------------------------------------------ *)
(* MutationScore                                                       *)
(* ------------------------------------------------------------------ *)

\* MutationScore.__init__
MutationScore ==
    [killed_mutants |-> 0, timeout_mutants |-> 0, incompetent_mutants |-> 0,
     survived_mutants |-> 0, covered_nodes |-> 0, all_nodes |-> 0]

inc_killed(s) == [s EXCEPT !.killed_mutants = @ + 1]

inc_timeout(s) == [s EXCEPT !.timeout_mutants = @ + 1]

\* inc_incompetent leaving the counter as it is
inc_incompetent_Forgotten(s) == s

inc_incompetent(s) == [s EXCEPT !.incompetent_mutants = @ + 1]

inc_survived(s) == [s EXCEPT !.survived_mutants = @ + 1]

update_coverage(s, covered_nodes, all_nodes) ==
    [s EXCEPT !.covered_nodes = @ + covered_nodes, !.all_nodes = @ + all_nodes]

\* the all_mutants property
all_mutants(s) ==
    s.killed_mutants + s.timeout_mutants + s.incompetent_mutants + s.survived_mutants

(* ------------------------------------------------------------------ *)
(* The views and the collaborators                                     *)
(* ------------------------------------------------------------------ *)

NotifyKinds ==
    {"initialize", "passed", "start", "mutation", "killed", "survived", "timeout",
     "incompetent", "end", "original_tests_fail", "cant_load"}

\* self.notify_<kind>(...)
notify(n, kind) == [n EXCEPT ![kind] = @ + 1]

\* what a test module's reference to a target resolves to: the original
\* module, the coverage-instrumented module, or the module of mutant k (k > 0)
Original == 0

CoverageModule == -1

\* inject_to_all leaving out the last test module
inject_to_all_ButLast(b, m, module) ==
    [t \in DOMAIN b |-> IF t \in DOMAIN test_modules /\ t < Len(test_modules)
                        THEN [b[t] EXCEPT ![m] = module]
                        ELSE b[t]]

\* ModuleInjector(module).inject_to(test_module) for every module of
\* test_modules: their references to target m now resolve to `module`
inject_to_all(b, m, module) ==
    [t \in DOMAIN b |-> IF t \in DOMAIN test_modules
                        THEN [b[t] EXCEPT ![m] = module]
                        ELSE b[t]]

\* what MutationSubprocess.get_result(live_time) gives: None after the
\* deadline, else a result object
NoResult == [is_none |-> TRUE, is_incompetent |-> FALSE, is_survived |-> FALSE]

SubprocessResults ==
    {NoResult} \cup [is_none : {FALSE}, is_incompetent : BOOLEAN, is_survived : BOOLEAN]

\* coverage_injector.get_result(): the (covered_nodes, all_nodes) pairs a
\* coverage run may report
CoverageResults == {<<0, 1>>, <<1, 1>>}

\* exit_status while sys.exit has not been called
NoExit == 0

\* what one step of a loader's iteration does: it yields the next module,
\* raises ModulesLoaderException, or is exhausted
LoaderSteps == {"module", "ModulesLoaderException", "exhausted"}

\* A unittest test is a record: a TestCase, which is not iterable, or a
\* TestSuite, which iterates over the tests it holds.
TestCase(id) == [iterable |-> FALSE, id |-> id, tests |-> <<>>]

TestSuite(tests) == [iterable |-> TRUE, id |-> 0, tests |-> tests]

\* the state before generate() is called, in the controller's runs
IdleGenerate ==
    /\ strategy = "FIRST_TO_LAST"
    /\ order = 2
    /\ input = <<>>
    /\ mutations = <<>>
    /\ mutations_to_apply = <<>>
    /\ available_mutations = <<>>
    /\ index = 0
    /\ usage = [i \in 1..MaxLen |-> 0]
    /\ not_used = <<>>
    /\ groups = <<>>
    /\ shuffled = <<>>
    /\ shuffler_calls = 0
    /\ hpc = "start"

\* MutationController.__init__, before run()
InitController ==
    /\ pc = "init"
    /\ self_mutation_number \in 0..(NumTargets * MaxMutants + 1)
    /\ mutate_covered \in BOOLEAN
    /\ test_modules = <<>>
    /\ target = 0
    /\ mutants_of_target = 0
    /\ yielded = 0
    /\ mutation_number = 0
    /\ has_score = FALSE
    /\ score = MutationScore
    /\ notified = [k \in NotifyKinds |-> 0]
    /\ binding = [t \in 1..NumTests |-> [m \in 1..NumTargets |-> Original]]
    /\ result = NoResult
    /\ created = 0
    /\ started = 0
    /\ interrupted = FALSE
    /\ caught = "none"
    /\ exit_status = NoExit

\* a controller on which run() is never called, in the strategies' runs
IdleController ==
    /\ InitController
    /\ self_mutation_number = 0
    /\ mutate_covered = FALSE

\* no count() was called
IdleScore ==
    /\ count_result = [num |-> 0, den |-> 1]
    /\ counted = FALSE

\* no child process was set up
IdleSubprocess ==
    /\ timeout_factor = 5
    /\ durations = <<>>
    /\ total_duration = 0
    /\ live_time = 0
    /\ child_time = 0
    /\ child_hangs = FALSE
    /\ waited = 0
    /\ process = <<>>

\* no suite was built
IdleSkip ==
    /\ suite = TestSuite(<<>>)
    /\ mutant_mutations = <<>>
    /\ test_covered_nodes = <<>>
    /\ skipped = {}
    /\ marked = FALSE

\* HighOrderMutator.mutate was not called
IdleMutate ==
    /\ mpc = "start"
    /\ hom_groups = <<>>
    /\ requested = 0
    /\ apply_index = 0
    /\ generators = <<>>
    /\ applied_mutations = <<>>
    /\ mutant = <<>>
    /\ pairs = <<>>
    /\ finish_index = 0
    /\ finished = <<>>
    /\ assertion = ""

InitHOM == InitGenerate /\ IdleController /\ IdleScore /\ IdleSubprocess /\ IdleSkip /\ IdleMutate

SpecHOM == InitHOM /\ [][NextHOM]_vars

\* BetweenOperatorsHOMStrategy.generate alone, driven to exhaustion by the
\* `for` loop that consumes the generator
InitBetweenOperators == strategy = "BETWEEN_OPERATORS" /\ InitHOM

NextBetweenOperators == BetweenOperators_generate /\ UNCHANGED <<cvars, ovars>>

SpecBetweenOperators ==
    InitBetweenOperators /\ [][NextBetweenOperators]_vars /\ WF_vars(NextBetweenOperators)

Init == InitController /\ IdleGenerate /\ IdleScore /\ IdleSubprocess /\ IdleSkip /\ IdleMutate

(* ------------------------------------------------------------------ *)
(* MutationController.run and run_mutation_process                     *)
(* ------------------------------------------------------------------ *)

\* run(): notify_initialize, then run_mutation_process is entered
Run ==
    /\ pc = "init"
    /\ notified' = notify(notified, "initialize")
    /\ pc' = "load_and_check_tests"
    /\ UNCHANGED <<mutation_number, has_score, self_mutation_number, mutate_covered, test_modules, target,
                   mutants_of_target, yielded, score, binding, result, created,
                   started, interrupted, caught, exit_status>>

\* ExceptTestsFailAtOriginal going on to the run-end notification
ExceptTestsFailAtOriginal_NotifiesEnd ==
    /\ notified' = notify(notify(notified, "original_tests_fail"), "end")
    /\ caught' = "TestsFailAtOriginal"
    /\ exit_status' = -1
    /\ pc' = "exit"

\* run(): except TestsFailAtOriginal
ExceptTestsFailAtOriginal ==
    /\ notified' = notify(notified, "original_tests_fail")
    /\ caught' = "TestsFailAtOriginal"
    /\ exit_status' = -1
    /\ pc' = "exit"

\* run(): except utils.ModulesLoaderException
ExceptModulesLoaderException ==
    /\ notified' = notify(notified, "cant_load")
    /\ caught' = "ModulesLoaderException"
    /\ exit_status' = -2
    /\ pc' = "exit"

\* load_and_check_tests: one turn of its loop over test_loader.load(), and,
\* when the loader is exhausted, the rest of run_mutation_process up to the
\* loop over the targets
LoadAndCheckTests ==
    /\ pc = "load_and_check_tests"
    /\ \E step \in LoaderSteps :
        \/ /\ step = "module"
           /\ Len(test_modules) < NumTests
           /\ \E wasSuccessful \in BOOLEAN :
                IF wasSuccessful
                THEN /\ test_modules' = Append(test_modules, Len(test_modules) + 1)
                     /\ UNCHANGED <<pc, notified, caught, exit_status, score, has_score>>
                ELSE /\ ExceptTestsFailAtOriginal
                     /\ UNCHANGED <<test_modules, score, has_score>>
        \/ /\ step = "ModulesLoaderException"
           /\ ExceptModulesLoaderException
           /\ UNCHANGED <<test_modules, score, has_score>>
        \/ /\ step = "exhausted"
           /\ notified' = notify(notify(notified, "passed"), "start")
           /\ score' = MutationScore
           /\ has_score' = TRUE
           /\ pc' = "targets"
           /\ UNCHANGED <<test_modules, caught, exit_status>>
    /\ UNCHANGED <<mutation_number, self_mutation_number, mutate_covered, target, mutants_of_target,
                   yielded, binding, result, created, started, interrupted>>

\* `for target_module, to_mutate in self.target_loader.load()`: one step of
\* the iteration
LoadTarget ==
    /\ pc = "targets"
    /\ \E step \in LoaderSteps :
        \/ /\ step = "module"
           /\ target < NumTargets
           /\ target' = target + 1
           /\ mutants_of_target' = 0
           /\ pc' = "mutate_module"
           /\ UNCHANGED <<notified, caught, exit_status>>
        \/ /\ step = "ModulesLoaderException"
           /\ ExceptModulesLoaderException
           /\ UNCHANGED <<target, mutants_of_target>>
        \/ /\ step = "exhausted"
           /\ pc' = "notify_end"
           /\ UNCHANGED <<target, mutants_of_target, notified, caught, exit_status>>
    /\ UNCHANGED <<mutation_number, has_score, self_mutation_number, mutate_covered, test_modules, yielded,
                   score, binding, result, created, started, interrupted>>

\* KeyboardInterrupt raised inside the try of run_mutation_process, outside
\* create_mutant_module: `except KeyboardInterrupt: pass`
KeyboardInterrupt ==
    /\ pc \in {"load_and_check_tests", "targets", "mutate_module", "mutants",
               "create_test_suite", "run_mutation_subprocess"}
    /\ interrupted' = TRUE
    /\ caught' = "KeyboardInterrupt"
    /\ pc' = "notify_end"
    /\ UNCHANGED <<mutation_number, has_score, self_mutation_number, mutate_covered, test_modules, target,
                   mutants_of_target, yielded, score, notified, binding, result,
                   created, started, exit_status>>

\* an exception that no except clause names, raised while a mutant's tests
\* are set up or run: it leaves run()
UnexpectedException ==
    /\ pc \in {"create_test_suite", "run_mutation_subprocess"}
    /\ caught' = "uncaught"
    /\ pc' = "crashed"
    /\ UNCHANGED <<mutation_number, has_score, self_mutation_number, mutate_covered, test_modules, target,
                   mutants_of_target, yielded, score, notified, binding, result,
                   created, started, interrupted, exit_status>>

\* run(): self.notify_end(self.score, ...); self.score is an AttributeError
\* when no score was assigned
NotifyEnd ==
    /\ pc = "notify_end"
    /\ IF ~has_score
       THEN /\ pc' = "crashed"
            /\ caught' = "uncaught"
            /\ UNCHANGED notified
       ELSE /\ pc' = "done"
            /\ notified' = notify(notified, "end")
            /\ UNCHANGED caught
    /\ UNCHANGED <<mutation_number, has_score, self_mutation_number, mutate_covered, test_modules, target,
                   mutants_of_target, yielded, score, binding, result, created,
                   started, interrupted, exit_status>>

(* ------------------------------------------------------------------ *)
(* MutationController.mutate_module                                    *)
(* ------------------------------------------------------------------ *)

\* inject_coverage, and score.update_coverage with what the injector counted
InjectCoverage(covered_nodes, all_nodes) ==
    IF mutate_covered
    THEN /\ binding' = inject_to_all(binding, target, CoverageModule)
         /\ score' = update_coverage(score, covered_nodes, all_nodes)
    ELSE UNCHANGED <<binding, score>>

\* mutate_module up to its loop over the mutants
MutateModule ==
    /\ pc = "mutate_module"
    /\ \E get_result \in CoverageResults : InjectCoverage(get_result[1], get_result[2])
    /\ pc' = "mutants"
    /\ UNCHANGED <<mutation_number, has_score, self_mutation_number, mutate_covered, test_modules, target,
                   mutants_of_target, yielded, notified, result, created, started,
                   interrupted, caught, exit_status>>

\* IsSkipped without the test that a number was requested at all
IsSkipped_AlsoWhenNone(number) == self_mutation_number # number

\* the test `self.mutation_number and self.mutation_number != mutation_number`
IsSkipped(number) ==
    self_mutation_number # 0 /\ self_mutation_number # number

\* repair_tests_modules
repair_tests_modules(b, m) == inject_to_all(b, m, Original)

\* MutationNumber counting the mutants of the current target only
MutationNumber_PerTarget == mutants_of_target + 1

\* `mutation_number = self.score.all_mutants + 1`
MutationNumber == all_mutants(score) + 1

\* the head of the loop over mutant_generator.mutate(...): the mutator yields
\* the next mutant, which is skipped or announced, or it is exhausted and
\* mutate_module ends with repair_tests_modules
NextMutant ==
    /\ pc = "mutants"
    /\ \/ /\ mutants_of_target < MaxMutants
          /\ mutants_of_target' = mutants_of_target + 1
          /\ yielded' = yielded + 1
          /\ mutation_number' = MutationNumber
          /\ IF IsSkipped(MutationNumber)
             THEN /\ score' = inc_incompetent(score)
                  /\ UNCHANGED <<pc, notified>>
             ELSE /\ notified' = notify(notified, "mutation")
                  /\ pc' = "create_mutant_module"
                  /\ UNCHANGED score
          /\ UNCHANGED binding
       \/ /\ binding' = repair_tests_modules(binding, target)
          /\ mutation_number' = 0
          /\ pc' = "targets"
          /\ UNCHANGED <<mutants_of_target, yielded, score, notified>>
    /\ UNCHANGED <<has_score, self_mutation_number, mutate_covered, test_modules, target,
                   result, created, started, interrupted, caught, exit_status>>

\* create_mutant_module and the `if mutant_module:` after it.  Any
\* BaseException of utils.create_module, KeyboardInterrupt included, is
\* answered with notify_incompetent and None.
CreateMutantModule ==
    /\ pc = "create_mutant_module"
    /\ \E outcome \in {"module", "Exception", "KeyboardInterrupt"} :
        IF outcome = "module"
        THEN /\ created' = created + 1
             /\ pc' = "create_test_suite"
             /\ UNCHANGED <<notified, score, interrupted>>
        ELSE /\ notified' = notify(notified, "incompetent")
             /\ score' = inc_incompetent(score)
             /\ interrupted' = (interrupted \/ outcome = "KeyboardInterrupt")
             /\ pc' = "mutants"
             /\ UNCHANGED created
    /\ UNCHANGED <<mutation_number, has_score, self_mutation_number, mutate_covered, test_modules, target,
                   mutants_of_target, yielded, binding, result, started, caught,
                   exit_status>>

\* run_tests_with_mutant: create_test_suite binds the test modules to the
\* mutant's module
CreateTestSuite ==
    /\ pc = "create_test_suite"
    /\ binding' = inject_to_all(binding, target, yielded)
    /\ pc' = "run_mutation_subprocess"
    /\ UNCHANGED <<mutation_number, has_score, self_mutation_number, mutate_covered, test_modules, target,
                   mutants_of_target, yielded, score, notified, result, created,
                   started, interrupted, caught, exit_status>>

\* Outcome with is_survived tested before is_incompetent
Outcome_SurvivedFirst(r) ==
    IF r.is_none THEN "timeout"
    ELSE IF r.is_survived THEN "survived"
    ELSE IF r.is_incompetent THEN "incompetent"
    ELSE "killed"

\* update_score_and_notify_views: the outcome a result is given
Outcome(r) ==
    IF r.is_none THEN "timeout"
    ELSE IF r.is_incompetent THEN "incompetent"
    ELSE IF r.is_survived THEN "survived"
    ELSE "killed"

\* update_timeout_mutant, update_incompetent_mutant, update_survived_mutant
\* and update_killed_mutant: the score they leave
ScoreAfter(s, outcome) ==
    CASE outcome = "timeout" -> inc_timeout(s)
      [] outcome = "incompetent" -> inc_incompetent(s)
      [] outcome = "survived" -> inc_survived(s)
      [] outcome = "killed" -> inc_killed(s)

\* run_tests_with_mutant: run_mutation_subprocess starts the child and
\* takes what get_result gives
RunMutationSubprocess ==
    /\ pc = "run_mutation_subprocess"
    /\ started' = started + 1
    /\ result' \in SubprocessResults
    /\ pc' = "update_score_and_notify_views"
    /\ UNCHANGED <<mutation_number, has_score, self_mutation_number, mutate_covered, test_modules,
                   target, mutants_of_target, yielded, score, notified, binding,
                   created, interrupted, caught, exit_status>>

\* update_score_and_notify_views(result, ...), after which
\* run_tests_with_mutant returns and its `result` is gone
UpdateScoreAndNotifyViews ==
    /\ pc = "update_score_and_notify_views"
    /\ notified' = notify(notified, Outcome(result))
    /\ score' = ScoreAfter(score, Outcome(result))
    /\ result' = NoResult
    /\ pc' = "mutants"
    /\ UNCHANGED <<mutation_number, has_score, self_mutation_number, mutate_covered, test_modules,
                   target, mutants_of_target, yielded, binding, created, started,
                   interrupted, caught, exit_status>>

Next ==
    \/ Run /\ UNCHANGED <<hvars, ovars>>
    \/ LoadAndCheckTests /\ UNCHANGED <<hvars, ovars>>
    \/ LoadTarget /\ UNCHANGED <<hvars, ovars>>
    \/ MutateModule /\ UNCHANGED <<hvars, ovars>>
    \/ NextMutant /\ UNCHANGED <<hvars, ovars>>
    \/ CreateMutantModule /\ UNCHANGED <<hvars, ovars>>
    \/ CreateTestSuite /\ UNCHANGED <<hvars, ovars>>
    \/ RunMutationSubprocess /\ UNCHANGED <<hvars, ovars>>
    \/ UpdateScoreAndNotifyViews /\ UNCHANGED <<hvars, ovars>>
    \/ KeyboardInterrupt /\ UNCHANGED <<hvars, ovars>>
    \/ UnexpectedException /\ UNCHANGED <<hvars, ovars>>
    \/ NotifyEnd /\ UNCHANGED <<hvars, ovars>>

Spec == Init /\ [][Next]_vars

(* ------------------------------------------------------------------ *)
(* MutationScore on its own: its methods called in any order           *)
(* ------------------------------------------------------------------ *)

\* A number count() returns is kept as the fraction num / den, den > 0.

\* count with all mutants, the incompetent ones included, as the bottom
count_OverAllMutants(s) ==
    LET bottom == all_mutants(s)
    IN  IF bottom # 0
        THEN [num |-> (s.killed_mutants + s.timeout_mutants) * 100, den |-> bottom]
        ELSE [num |-> 0, den |-> 1]

\* MutationScore.count
count(s) ==
    LET bottom == all_mutants(s) - s.incompetent_mutants
    IN  IF bottom # 0
        THEN [num |-> (s.killed_mutants + s.timeout_mutants) * 100, den |-> bottom]
        ELSE [num |-> 0, den |-> 1]

\* the controller's state but self.score
cvars_but_score ==
    <<pc, self_mutation_number, mutate_covered, test_modules, target,
      mutants_of_target, yielded, mutation_number, has_score, notified, binding,
      result, created, started, interrupted, caught, exit_status>>

\* a fresh MutationScore
InitScore == Init /\ self_mutation_number = 0 /\ ~mutate_covered

\* a call of one of the inc_ methods; the run counts no more mutants than
\* its targets have
IncMutants(after) ==
    /\ all_mutants(score) < NumTargets * MaxMutants
    /\ score' = after
    /\ counted' = FALSE
    /\ UNCHANGED <<count_result, cvars_but_score, hvars, svars, kvars, mvars>>

Score_inc_killed == IncMutants(inc_killed(score))

Score_inc_timeout == IncMutants(inc_timeout(score))

Score_inc_incompetent == IncMutants(inc_incompetent(score))

Score_inc_survived == IncMutants(inc_survived(score))

\* a call of update_coverage, once per target at most
Score_update_coverage ==
    /\ score.all_nodes < NumTargets
    /\ \E get_result \in CoverageResults :
          score' = update_coverage(score, get_result[1], get_result[2])
    /\ counted' = FALSE
    /\ UNCHANGED <<count_result, cvars_but_score, hvars, svars, kvars, mvars>>

\* a call of count()
Score_count ==
    /\ count_result' = count(score)
    /\ counted' = TRUE
    /\ UNCHANGED <<cvars, hvars, svars, kvars, mvars>>

NextScore ==
    \/ Score_inc_killed
    \/ Score_inc_timeout
    \/ Score_inc_incompetent
    \/ Score_inc_survived
    \/ Score_update_coverage
    \/ Score_count

SpecScore == InitScore /\ [][NextScore]_vars

(* ------------------------------------------------------------------ *)
(* run_tests_with_mutant: one mutant's isolated execution              *)
(* ------------------------------------------------------------------ *)

\* the values of MutationController.timeout_factor tried (5 is the default)
TimeoutFactors == {1, 5}

\* create_test_suite: total_duration after its loop over tests_modules
RECURSIVE TotalDuration(_, _)
TotalDuration(total, ds) ==
    IF ds = <<>> THEN total ELSE TotalDuration(total + Head(ds), Tail(ds))

\* LiveTime without the floor of one second
LiveTime_NoFloor(factor, duration) == factor * duration

\* run_mutation_subprocess: live_time
LiveTime(factor, duration) == factor * (IF duration > 1 THEN duration ELSE 1)

\* process.get_result(deadline): the pairs of what it returns and how long
\* it blocked.  A child that reports before the deadline gives its result
\* then; one that has not reported when the deadline passes gives None; one
\* that reports at the deadline may give either.
get_result(deadline) ==
    LET arrived == {<<r, child_time>> : r \in SubprocessResults \ {NoResult}}
        expired == {<<NoResult, deadline>>}
    IN  IF child_hangs \/ child_time > deadline THEN expired
        ELSE IF child_time = deadline THEN arrived \cup expired
        ELSE arrived

\* the first mutant of a run has been built and run_tests_with_mutant is
\* entered with the test modules load_and_check_tests has timed
InitSubprocess ==
    /\ IdleGenerate /\ IdleScore /\ IdleSkip /\ IdleMutate
    /\ pc = "create_test_suite"
    /\ self_mutation_number = 0
    /\ mutate_covered = FALSE
    /\ \E n \in 0..NumTests :
          /\ test_modules = [t \in 1..n |-> t]
          /\ durations \in [1..n -> 0..MaxDuration]
    /\ target = 1
    /\ mutants_of_target = 1
    /\ yielded = 1
    /\ mutation_number = 1
    /\ has_score = TRUE
    /\ score = MutationScore
    /\ notified = [k \in NotifyKinds |->
                      IF k \in {"initialize", "passed", "start", "mutation"} THEN 1 ELSE 0]
    /\ binding = [t \in 1..NumTests |-> [m \in 1..NumTargets |-> Original]]
    /\ result = NoResult
    /\ created = 1
    /\ started = 0
    /\ interrupted = FALSE
    /\ caught = "none"
    /\ exit_status = NoExit
    /\ timeout_factor \in TimeoutFactors
    /\ total_duration = 0
    /\ live_time = 0
    /\ child_time \in 0..MaxChildTime
    /\ child_hangs \in BOOLEAN
    /\ waited = 0
    /\ process = <<>>

\* create_test_suite: the rebinding, and the sum of the durations
Sub_CreateTestSuite ==
    /\ CreateTestSuite
    /\ total_duration' = TotalDuration(0, durations)
    /\ UNCHANGED <<timeout_factor, durations, live_time, child_time, child_hangs,
                   waited, process>>
    /\ UNCHANGED <<hvars, scvars, kvars, mvars>>

\* run_mutation_subprocess: live_time, and process.start()
Sub_Start ==
    /\ pc = "run_mutation_subprocess"
    /\ process = <<>>
    /\ live_time' = LiveTime(timeout_factor, total_duration)
    /\ process' = <<"start">>
    /\ started' = started + 1
    /\ UNCHANGED <<timeout_factor, durations, total_duration, child_time,
                   child_hangs, waited>>
    /\ UNCHANGED <<pc, self_mutation_number, mutate_covered, test_modules, target,
                   mutants_of_target, yielded, mutation_number, has_score, score,
                   notified, binding, result, created, interrupted, caught,
                   exit_status>>
    /\ UNCHANGED <<hvars, scvars, kvars, mvars>>

\* run_mutation_subprocess: result = process.get_result(live_time)
Sub_GetResult ==
    /\ pc = "run_mutation_subprocess"
    /\ process = <<"start">>
    /\ \E got \in get_result(live_time) :
          /\ result' = got[1]
          /\ waited' = got[2]
    /\ process' = Append(process, "get_result")
    /\ UNCHANGED <<timeout_factor, durations, total_duration, live_time, child_time,
                   child_hangs>>
    /\ UNCHANGED <<pc, self_mutation_number, mutate_covered, test_modules, target,
                   mutants_of_target, yielded, mutation_number, has_score, score,
                   notified, binding, created, started, interrupted, caught,
                   exit_status>>
    /\ UNCHANGED <<hvars, scvars, kvars, mvars>>

\* run_mutation_subprocess: process.terminate(), and the return
Sub_Terminate ==
    /\ pc = "run_mutation_subprocess"
    /\ process = <<"start", "get_result">>
    /\ process' = Append(process, "terminate")
    /\ pc' = "update_score_and_notify_views"
    /\ UNCHANGED <<timeout_factor, durations, total_duration, live_time, child_time,
                   child_hangs, waited>>
    /\ UNCHANGED <<self_mutation_number, mutate_covered, test_modules, target,
                   mutants_of_target, yielded, mutation_number, has_score, score,
                   notified, binding, result, created, started, interrupted, caught,
                   exit_status>>
    /\ UNCHANGED <<hvars, scvars, kvars, mvars>>

\* update_score_and_notify_views with the result returned
Sub_UpdateScoreAndNotifyViews ==
    /\ UpdateScoreAndNotifyViews
    /\ UNCHANGED <<hvars, ovars>>

NextSubprocess ==
    \/ Sub_CreateTestSuite
    \/ Sub_Start
    \/ Sub_GetResult
    \/ Sub_Terminate
    \/ Sub_UpdateScoreAndNotifyViews

SpecSubprocess == InitSubprocess /\ [][NextSubprocess]_vars

(* ------------------------------------------------------------------ *)
(* mark_not_covered_tests_as_skip                                      *)
(* ------------------------------------------------------------------ *)

\* the lists of at most two tests taken from a set
UpToTwo(tests) ==
    {<<>>} \cup {<<a>> : a \in tests} \cup {<<a, b>> : a \in tests, b \in tests}

\* the suites create_test_suite may build: test cases, alone or in
\* sub-suites, at most two to a suite
Suites ==
    LET cases  == {TestCase(id) : id \in 1..NumTestCases}
        nested == cases \cup {TestSuite(tests) : tests \in UpToTwo(cases)}
    IN  {TestSuite(tests) : tests \in UpToTwo(nested)}

\* the groups of mutations a mutant may be made of: the first group
\* EachChoice yields, with order 1 or 2, for a list of one or two mutations
MutantGroups ==
    {EachChoice_groups(list, k)[1] :
        list \in generate_all_mutations(1) \cup generate_all_mutations(2), k \in {1, 2}}

\* the sets of node markers a coverage run may have recorded for a test
CoveredSets == {{}, {3}, {3, 4}}

\* mutated_nodes = {mutation.node.marker for mutation in mutations}
mutated_nodes(mutations_of_mutant) ==
    {mutations_of_mutant[i].node : i \in DOMAIN mutations_of_mutant}

\* add_skip(test): the tests it marks
add_skip(test, mutated, covered) ==
    IF mutated \cap covered[test.id] = {} THEN {test.id} ELSE {}

\* iter_tests looking at the tests of the suite itself only
iter_tests_TopLevelOnly(tests, mutated, covered) ==
    UNION {IF tests.tests[i].iterable THEN {}
           ELSE add_skip(tests.tests[i], mutated, covered) : i \in DOMAIN tests.tests}

\* iter_tests(tests): iterating a TestCase raises TypeError, which is
\* answered with add_skip; the value is the set of tests marked
RECURSIVE iter_tests(_, _, _)
iter_tests(tests, mutated, covered) ==
    IF tests.iterable
    THEN UNION {iter_tests(tests.tests[i], mutated, covered) : i \in DOMAIN tests.tests}
    ELSE add_skip(tests, mutated, covered)

\* run_tests_with_mutant has built the suite of a mutant; coverage_result is
\* there exactly when mutate_covered is set
InitSkip ==
    /\ InitController /\ self_mutation_number = 0
    /\ IdleGenerate /\ IdleScore /\ IdleSubprocess /\ IdleMutate
    /\ suite \in Suites
    /\ mutant_mutations \in MutantGroups
    /\ test_covered_nodes \in [1..NumTestCases -> CoveredSets]
    /\ skipped = {}
    /\ marked = FALSE

\* run_tests_with_mutant: `if coverage_result:
\* self.mark_not_covered_tests_as_skip(mutations, coverage_result, suite)`
MarkNotCoveredTestsAsSkip ==
    /\ ~marked
    /\ skipped' = IF mutate_covered
                  THEN iter_tests(suite, mutated_nodes(mutant_mutations), test_covered_nodes)
                  ELSE {}
    /\ marked' = TRUE
    /\ UNCHANGED <<suite, mutant_mutations, test_covered_nodes>>
    /\ UNCHANGED <<hvars, cvars, scvars, svars, mvars>>

SpecSkip == InitSkip /\ [][MarkNotCoveredTestsAsSkip]_vars

(* ------------------------------------------------------------------ *)
(* HighOrderMutator.mutate and finish_generators                       *)
(* ------------------------------------------------------------------ *)

\* An AST is kept as the list of the edits made to the target's AST, by the
\* id of their mutation; <<>> is target_ast itself.

\* what generator.__next__() of an operator replaying one mutation does: it
\* yields a mutation and the mutated AST, or raises StopIteration
ReplayOutcomes == {"mutation", "StopIteration"}

\* the lists of groups self.hom_strategy.generate(mutations) may yield: what
\* EachChoice yields for a list generate_all_mutations returned
HomGroupLists ==
    {EachChoice_groups(list, k) :
        list \in UNION {generate_all_mutations(n) : n \in 0..MaxLen}, k \in Orders}

\* FinishOrder walking the generators in the order they were started
FinishOrder_Forward(gens) == gens

\* finish_generators: reversed(generators)
FinishOrder(gens) == [i \in DOMAIN gens |-> gens[Len(gens) + 1 - i]]

\* mutate() is called on a HighOrderMutator whose strategy yields hom_groups
InitMutate ==
    /\ IdleController /\ IdleGenerate /\ IdleScore /\ IdleSubprocess /\ IdleSkip
    /\ mpc = "start"
    /\ hom_groups \in HomGroupLists
    /\ requested = 0
    /\ apply_index = 0
    /\ generators = <<>>
    /\ applied_mutations = <<>>
    /\ mutant = <<>>
    /\ pairs = <<>>
    /\ finish_index = 0
    /\ finished = <<>>
    /\ assertion = ""

\* mutate: generate_all_mutations, and the call of hom_strategy.generate
Mutate_Start ==
    /\ mpc = "start"
    /\ mpc' = "next_group"
    /\ UNCHANGED <<hom_groups, requested, apply_index, generators, applied_mutations,
                   mutant, pairs, finish_index, finished, assertion>>

\* mutate: the outer `for` asks the strategy for its next group
Mutate_NextGroup ==
    /\ mpc = "next_group"
    /\ IF requested < Len(hom_groups)
       THEN /\ requested' = requested + 1
            /\ generators' = <<>>
            /\ applied_mutations' = <<>>
            /\ mutant' = <<>>
            /\ apply_index' = 1
            /\ finished' = <<>>
            /\ mpc' = "apply"
       ELSE /\ mpc' = "done"
            /\ UNCHANGED <<requested, generators, applied_mutations, mutant,
                           apply_index, finished>>
    /\ UNCHANGED <<hom_groups, pairs, finish_index, assertion>>

\* mutate: one turn of the inner `for`, which replays one mutation of the
\* group on `mutant`, or, the group done, the yield
Mutate_Apply ==
    /\ mpc = "apply"
    /\ LET mutations_of_group == hom_groups[requested]
       IN  IF apply_index <= Len(mutations_of_group)
           THEN LET mutation == mutations_of_group[apply_index]
                IN  \E outcome \in ReplayOutcomes :
                       IF outcome = "mutation"
                       THEN /\ applied_mutations' = Append(applied_mutations, mutation)
                            /\ generators' = Append(generators,
                                                    [mutation |-> mutation.id, ast |-> mutant])
                            /\ mutant' = Append(mutant, mutation.id)
                            /\ apply_index' = apply_index + 1
                            /\ UNCHANGED <<mpc, assertion, pairs>>
                       ELSE /\ assertion' = "no mutations!"
                            /\ mpc' = "assertion_error"
                            /\ UNCHANGED <<applied_mutations, generators, mutant,
                                           apply_index, pairs>>
           ELSE /\ pairs' = Append(pairs, [mutations |-> applied_mutations,
                                           mutant |-> mutant])
                /\ mpc' = "yielded"
                /\ UNCHANGED <<applied_mutations, generators, mutant, apply_index,
                               assertion>>
    /\ UNCHANGED <<hom_groups, requested, finish_index, finished>>

\* the caller resumes mutate: finish_generators is entered
Mutate_Resume ==
    /\ mpc = "yielded"
    /\ finish_index' = 1
    /\ mpc' = "finish"
    /\ UNCHANGED <<hom_groups, requested, apply_index, generators, applied_mutations,
                   mutant, pairs, finished, assertion>>

\* finish_generators: one turn of its loop, or its return
Mutate_Finish ==
    /\ mpc = "finish"
    /\ IF finish_index <= Len(generators)
       THEN LET generator == FinishOrder(generators)[finish_index]
            IN  \E outcome \in ReplayOutcomes :
                   IF outcome = "StopIteration"
                   THEN /\ finished' = Append(finished, generator.mutation)
                        /\ finish_index' = finish_index + 1
                        /\ UNCHANGED <<mpc, assertion>>
                   ELSE /\ assertion' = "too many mutations!"
                        /\ mpc' = "assertion_error"
                        /\ UNCHANGED <<finished, finish_index>>
       ELSE /\ mpc' = "next_group"
            /\ UNCHANGED <<finished, finish_index, assertion>>
    /\ UNCHANGED <<hom_groups, requested, apply_index, generators, applied_mutations,
                   mutant, pairs>>

NextMutate ==
    \/ Mutate_Start /\ UNCHANGED <<hvars, cvars, scvars, svars, kvars>>
    \/ Mutate_NextGroup /\ UNCHANGED <<hvars, cvars, scvars, svars, kvars>>
    \/ Mutate_Apply /\ UNCHANGED <<hvars, cvars, scvars, svars, kvars>>
    \/ Mutate_Resume /\ UNCHANGED <<hvars, cvars, scvars, svars, kvars>>
    \/ Mutate_Finish /\ UNCHANGED <<hvars, cvars, scvars, svars, kvars>>

SpecMutate == InitMutate /\ [][NextMutate]_vars

(* ------------------------------------------------------------------ *)
(* Properties of the HOM strategies                                    *)
(* ------------------------------------------------------------------ *)

\* the mutations of the groups yielded so far, in the order yielded
RECURSIVE Flatten(_)
Flatten(gs) == IF gs = <<>> THEN <<>> ELSE Head(gs) \o Flatten(Tail(gs))

\* how often mutation m occurs in a list
Occurrences(m, list) == Cardinality({i \in DOMAIN list : list[i] = m})

\* the nodes above n, read from ParentOf
RECURSIVE Ancestors(_)
Ancestors(n) == IF ParentOf[n] = 0 THEN {} ELSE {ParentOf[n]} \cup Ancestors(ParentOf[n])

\* C2: for EachChoice, FirstToLast and Random the yielded groups hold only
\* mutations of the input, none of them twice, and once generate() is
\* exhausted every input mutation is in exactly one group, exactly once.
C2_GroupsPartitionInput ==
    strategy \in {"EACH_CHOICE", "FIRST_TO_LAST", "RANDOM"} =>
        LET yielded_mutations == Flatten(groups)
        IN  /\ Range(yielded_mutations) \subseteq Range(input)
            /\ \A m \in Range(input) : Occurrences(m, yielded_mutations) <= 1
            /\ hpc = "done" =>
                  \A m \in Range(input) : Occurrences(m, yielded_mutations) = 1

\* Random has shuffled a list of three into another order and split it into
\* two groups
C2_Witness ==
    /\ strategy = "RANDOM"
    /\ hpc = "done"
    /\ Len(input) = 3
    /\ Len(groups) = 2
    /\ groups[1][1] # input[1]

\* two mutations may share a group: different nodes, neither above the
\* other, and, for BetweenOperators, different operators
Compatible(a, b) ==
    /\ a.node # b.node
    /\ a.node \notin Ancestors(b.node)
    /\ b.node \notin Ancestors(a.node)
    /\ strategy = "BETWEEN_OPERATORS" => a.operator # b.operator

PairwiseCompatible(group) ==
    \A i, j \in DOMAIN group : i < j => Compatible(group[i], group[j])

\* C3: every group yielded by any strategy, and the group being built, is
\* pairwise compatible: no two mutations on the same node or on a node and
\* one of its ancestors, nor, for BetweenOperators, of the same operator.
C3_GroupsPairwiseCompatible ==
    /\ \A g \in DOMAIN groups : PairwiseCompatible(groups[g])
    /\ PairwiseCompatible(mutations_to_apply)

\* BetweenOperators has yielded a full group of two and a group left short
\* by the filter
C3_Witness ==
    /\ strategy = "BETWEEN_OPERATORS"
    /\ order = 2
    /\ hpc = "done"
    /\ \E g \in DOMAIN groups : Len(groups[g]) = 2
    /\ \E g \in DOMAIN groups : Len(groups[g]) = 1

\* a measure of the work BetweenOperators.generate has left: the mutations
\* never used, then, for that many, whether a group is being filled (and
\* from how large a pool), is about to be started, or has just been started
WorkLeft ==
    Len(not_used) * (MaxLen + 3)
    + (IF hpc = "inner" /\ mutations_to_apply # <<>> THEN 2 + Len(available_mutations)
       ELSE IF hpc = "outer" THEN 1
       ELSE 0)

\* C4: BetweenOperators.generate terminates: every step it takes after the
\* first lowers WorkLeft, a natural number, so it takes finitely many until
\* it is exhausted.  When it is exhausted every input mutation is in at least one
\* yielded group.  The first mutation picked for a group was never used
\* before, so the not-yet-used list, which never grows, is strictly shorter
\* after every group.
C4_BetweenOperatorsTerminates ==
    /\ [](hpc = "done" => \A m \in Range(input) : Occurrences(m, Flatten(groups)) >= 1)
    /\ [][/\ hpc # "start" => WorkLeft' < WorkLeft /\ WorkLeft' >= 0
          /\ (hpc = "inner" /\ mutations_to_apply = <<>>) =>
                /\ mutations_to_apply' # <<>>
                /\ usage[mutations_to_apply'[1].id] = 0
                /\ Len(not_used') < Len(not_used)
          /\ hpc # "start" => Len(not_used') <= Len(not_used)]_vars

\* BetweenOperators has finished after using some mutation a second time to
\* fill a group
C4_Witness ==
    /\ strategy = "BETWEEN_OPERATORS"
    /\ hpc = "done"
    /\ Len(groups) >= 2
    /\ \E i \in DOMAIN input : usage[i] >= 2

(* ------------------------------------------------------------------ *)
(* Properties of MutationController                                    *)
(* ------------------------------------------------------------------ *)

\* between two mutants: at the head of the mutant loop or of the target loop
BetweenMutants == pc \in {"targets", "mutate_module", "mutants"}

\* a yielded mutant is being processed
MutantInFlight ==
    pc \in {"create_mutant_module", "create_test_suite", "run_mutation_subprocess",
            "update_score_and_notify_views"}

\* the step ends a mutant's turn of the loop: it was skipped, its
\* construction failed, or it was executed and classified
MutantTurnEnds ==
    \/ pc = "mutants" /\ yielded' = yielded + 1 /\ pc' = "mutants"
    \/ pc = "create_mutant_module" /\ pc' = "mutants"
    \/ pc = "update_score_and_notify_views" /\ pc' = "mutants"

\* the outcome notifications the views have received
OutcomeNotifications ==
    notified["killed"] + notified["survived"] + notified["timeout"] + notified["incompetent"]

\* C1: all_mutants is the sum of the four counters, never decreases, and is
\* incremented exactly once in the turn of every yielded mutant (skipped,
\* construction failed, or executed and classified) and by no other step:
\* between mutants it equals the number of mutants yielded, and while a
\* mutant is processed it is one less.
C1_AllMutantsCountsEachMutantOnce ==
    /\ [](all_mutants(score) = score.killed_mutants + score.timeout_mutants
                               + score.incompetent_mutants + score.survived_mutants)
    /\ [](BetweenMutants => all_mutants(score) = yielded)
    /\ [](MutantInFlight => all_mutants(score) = yielded - 1)
    /\ [][/\ all_mutants(score') >= all_mutants(score)
          /\ IF MutantTurnEnds
             THEN all_mutants(score') = all_mutants(score) + 1
             ELSE all_mutants(score') = all_mutants(score)]_vars

\* a run has ended after mutants of three outcomes, every one counted
C1_Witness ==
    /\ pc = "done"
    /\ self_mutation_number = 0
    /\ yielded >= 3
    /\ all_mutants(score) = yielded
    /\ score.killed_mutants >= 1
    /\ score.timeout_mutants >= 1
    /\ score.incompetent_mutants >= 1

\* C5: update_score_and_notify_views gives a result exactly one outcome, in
\* the order no result -> timeout, is_incompetent -> incompetent,
\* is_survived -> survived, else killed; it increments that outcome's counter
\* and no other counter (coverage counters included) and sends that
\* outcome's notification and no other.
C5_ClassificationPrecedence ==
    [][pc = "update_score_and_notify_views" =>
        /\ result.is_none =>
              /\ score' = [score EXCEPT !.timeout_mutants = @ + 1]
              /\ notified' = [notified EXCEPT !["timeout"] = @ + 1]
        /\ ~result.is_none /\ result.is_incompetent =>
              /\ score' = [score EXCEPT !.incompetent_mutants = @ + 1]
              /\ notified' = [notified EXCEPT !["incompetent"] = @ + 1]
        /\ ~result.is_none /\ ~result.is_incompetent /\ result.is_survived =>
              /\ score' = [score EXCEPT !.survived_mutants = @ + 1]
              /\ notified' = [notified EXCEPT !["survived"] = @ + 1]
        /\ ~result.is_none /\ ~result.is_incompetent /\ ~result.is_survived =>
              /\ score' = [score EXCEPT !.killed_mutants = @ + 1]
              /\ notified' = [notified EXCEPT !["killed"] = @ + 1]]_vars

\* the first mutant was constructed, executed, and its result classified
\* incompetent
C5_Witness ==
    /\ pc = "mutants"
    /\ yielded = 1
    /\ created = 1
    /\ started = 1
    /\ score.incompetent_mutants = 1
    /\ notified["incompetent"] = 1

\* the target m is being processed by mutate_module
InMutateModule(m) ==
    m = target /\ (pc = "mutate_module" \/ pc = "mutants" \/ MutantInFlight)

\* C6: once the mutant loop of a started target has ended, also by an
\* exception or an interrupt, every test module's reference to the target
\* resolves to the original target module.
C6_TestsRestoredAfterTarget ==
    \A m \in 1..target :
        ~InMutateModule(m) =>
            \A t \in DOMAIN test_modules : binding[t][m] = Original

\* the mutants skipped so far on behalf of self.mutation_number
SkippedMutants ==
    IF self_mutation_number = 0 THEN 0
    ELSE IF all_mutants(score) >= self_mutation_number THEN all_mutants(score) - 1
    ELSE all_mutants(score)

\* C7, as claimed: between any two mutants the number of outcome
\* notifications equals score.all_mutants, whichever path the mutants took.
C7_OneNotificationPerMutant ==
    BetweenMutants => OutcomeNotifications = all_mutants(score)

\* C7, amended: between any two mutants the outcome notifications are as
\* many as the mutants announced with notify_mutation, and as many as
\* score.all_mutants less the mutants skipped for the requested ordinal,
\* which are counted incompetent without any notification.
C7_OneNotificationPerAnnouncedMutant ==
    /\ BetweenMutants =>
          /\ OutcomeNotifications = notified["mutation"]
          /\ OutcomeNotifications = all_mutants(score) - SkippedMutants
    /\ MutantInFlight => OutcomeNotifications = notified["mutation"] - 1

\* with ordinal 2 requested, three mutants are counted and one was notified
C7_Witness ==
    /\ pc = "mutants"
    /\ self_mutation_number = 2
    /\ all_mutants(score) = 3
    /\ OutcomeNotifications = 1
    /\ notified["mutation"] = 1

\* C8: with ordinal k requested, the ordinal of a mutant is all_mutants + 1
\* when it is yielded, which is its place among all mutants yielded in the
\* run; a mutant of another ordinal is counted incompetent and nothing else
\* happens (no announcement, construction, rebinding or execution); mutant k
\* is announced and handed to create_mutant_module; and when the loop over
\* the targets has run to its end, all_mutants is the number of mutants
\* yielded and at most one was constructed and executed.
C8_RequestedOrdinal ==
    /\ [](MutantInFlight => mutation_number = yielded)
    /\ [](self_mutation_number # 0 =>
            /\ MutantInFlight => yielded = self_mutation_number
            /\ created <= 1
            /\ started <= 1
            /\ (pc = "done" /\ caught = "none") =>
                  /\ all_mutants(score) = yielded
                  /\ score.incompetent_mutants >= yielded - 1)
    /\ [][(self_mutation_number # 0 /\ yielded' = yielded + 1) =>
            IF yielded' = self_mutation_number
            THEN /\ pc' = "create_mutant_module"
                 /\ notified' = [notified EXCEPT !["mutation"] = @ + 1]
                 /\ score' = score
            ELSE /\ score' = [score EXCEPT !.incompetent_mutants = @ + 1]
                 /\ UNCHANGED <<pc, notified, binding, created, started>>]_vars

\* ordinal 3 was requested; it is the first mutant of the second target, and
\* it was executed and killed while the three others were counted incompetent
C8_Witness ==
    /\ pc = "done"
    /\ caught = "none"
    /\ self_mutation_number = 3
    /\ yielded = 4
    /\ started = 1
    /\ score.killed_mutants = 1
    /\ score.incompetent_mutants = 3

\* C9: once a KeyboardInterrupt was raised, no further mutant is yielded,
\* announced or counted, no counter changes, and the only notification still
\* sent is the run-end notification.
C9_InterruptEndsRun ==
    [][interrupted =>
        /\ yielded' = yielded
        /\ score' = score
        /\ notified' = notified \/ notified' = [notified EXCEPT !["end"] = @ + 1]]_vars

\* C10: when the run has ended with a fatal error, no mutant was yielded,
\* announced or counted and no outcome notification was sent.
C10_FatalErrorBeforeAnyMutant ==
    exit_status # NoExit =>
        /\ yielded = 0
        /\ all_mutants(score) = 0
        /\ notified["mutation"] = 0
        /\ OutcomeNotifications = 0

(* ------------------------------------------------------------------ *)
(* Properties of run()                                                 *)
(* ------------------------------------------------------------------ *)

\* run() has ended: by sys.exit, by returning, or by an exception
Terminal == pc \in {"exit", "done", "crashed"}

\* outcome (1): the baseline check stopped at the first unsuccessful test
\* module, which is not among the loaded ones; neither passed nor start was
\* notified; status -1
BaselineFailed ==
    /\ pc = "exit"
    /\ exit_status = -1
    /\ caught = "TestsFailAtOriginal"
    /\ notified["original_tests_fail"] = 1
    /\ notified["cant_load"] = 0
    /\ notified["passed"] = 0
    /\ notified["start"] = 0
    /\ notified["end"] = 0
    /\ Len(test_modules) < NumTests
    /\ ~has_score

\* outcome (2): a loader error; status -2
CannotLoad ==
    /\ pc = "exit"
    /\ exit_status = -2
    /\ caught = "ModulesLoaderException"
    /\ notified["cant_load"] = 1
    /\ notified["original_tests_fail"] = 0
    /\ notified["end"] = 0

\* outcome (3): the run-end notification with the score, no exit status
RunEnded ==
    /\ pc = "done"
    /\ exit_status = NoExit
    /\ has_score
    /\ notified["end"] = 1
    /\ notified["original_tests_fail"] = 0
    /\ notified["cant_load"] = 0

\* a fourth way run() ends: an exception no except clause of run() names
\* leaves it; nothing is notified for it and sys.exit is not called
ExceptionLeavesRun ==
    /\ pc = "crashed"
    /\ caught = "uncaught"
    /\ exit_status = NoExit
    /\ notified["end"] = 0
    /\ notified["original_tests_fail"] = 0
    /\ notified["cant_load"] = 0

C17_ExclusiveBindingOneAtATime ==
    /\ pc \in {"run_mutation_subprocess", "update_score_and_notify_views"} =>
          /\ yielded > 0
          /\ \A t \in DOMAIN test_modules : binding[t][target] = yielded
          /\ all_mutants(score) = yielded - 1
    /\ started <= yielded
    /\ pc = "update_score_and_notify_views" => started >= 1
    /\ pc = "mutants" => all_mutants(score) = yielded

\* the second mutant of the second target runs with two test modules loaded,
\* after the first target's mutants were executed
C17_Witness ==
    /\ pc = "update_score_and_notify_views"
    /\ Len(test_modules) = 2
    /\ target = 2
    /\ yielded = 4
    /\ started = 4
    /\ \A t \in DOMAIN test_modules : binding[t][2] = 4

\* C20: whenever run() is at its run-end notification, or has sent it, a
\* MutationScore was created in this run.
C20_EndNotificationHasScore ==
    (pc = "notify_end" \/ notified["end"] > 0) => has_score

(* ------------------------------------------------------------------ *)
(* Further properties of the HOM strategies                            *)
(* ------------------------------------------------------------------ *)

\* C15: every yielded group is non-empty and no longer than `order`; right
\* after a group shorter than `order` was yielded, its candidate pool is
\* empty; and an empty input list yields no group.
C15_GroupSizes ==
    /\ \A g \in DOMAIN groups : Len(groups[g]) >= 1 /\ Len(groups[g]) <= order
    /\ (hpc = "outer" /\ groups # <<>>) =>
          /\ groups[Len(groups)] = mutations_to_apply
          /\ Len(mutations_to_apply) < order => available_mutations = <<>>
    /\ input = <<>> => groups = <<>>

\* with order 3, a group of one is yielded because the filter
\* emptied the pool, although mutations remain for later groups
C15_Witness ==
    /\ order = 3
    /\ hpc = "outer"
    /\ groups # <<>>
    /\ Len(groups[Len(groups)]) = 1
    /\ mutations # <<>>

\* C18: Random calls the shuffler once, on a copy (the copy holds the
\* mutations of the input, each once); the groups it has yielded
\* are the first groups EachChoice.generate yields for the shuffled copy
\* (compared after every yield), and all of them once it is exhausted.
\* EachChoice itself yields EachChoice_groups of its input, so with a
\* shuffler that leaves the list as it is the two yield the same groups.
C18_RandomIsEachChoiceOfShuffled ==
    /\ strategy = "RANDOM" /\ hpc # "start" =>
          /\ shuffler_calls = 1
          /\ Len(shuffled) = Len(input)
          /\ Range(shuffled) = Range(input)
    /\ strategy = "RANDOM" /\ hpc \in {"outer", "done"} =>
          \E each \in {EachChoice_groups(shuffled, order)} :
              /\ Len(groups) <= Len(each)
              /\ groups = SubSeq(each, 1, Len(groups))
              /\ hpc = "done" => groups = each
              /\ (hpc = "done" /\ shuffled = input) =>
                     groups = EachChoice_groups(input, order)
    /\ strategy = "EACH_CHOICE" /\ hpc \in {"outer", "done"} =>
          \E each \in {EachChoice_groups(input, order)} :
              /\ Len(groups) <= Len(each)
              /\ groups = SubSeq(each, 1, Len(groups))
              /\ hpc = "done" => groups = each
    /\ strategy # "RANDOM" => shuffler_calls = 0

\* Random is exhausted after a shuffle that changed the order of three
\* mutations, with a group of two among those yielded
C18_Witness ==
    /\ strategy = "RANDOM"
    /\ hpc = "done"
    /\ Len(input) = 3
    /\ shuffled # input
    /\ shuffler_calls = 1
    /\ \E g \in DOMAIN groups : Len(groups[g]) = 2

\* the mutations of `list` that are not in `taken`, in the order of `list`
Without(list, taken) == SelectSeq(list, LAMBDA m : m \notin Range(taken))

\* the mutations of `pool` that may share a group with every one of `group`
CompatiblePool(pool, group) ==
    SelectSeq(pool, LAMBDA m : \A i \in DOMAIN group : Compatible(group[i], m))

\* the group built from `pool` by picking alternately its first and its last
\* compatible mutation, `from_front` telling which end the next pick is from
RECURSIVE AlternatingGroup(_, _, _, _)
AlternatingGroup(group, pool, k, from_front) ==
    LET candidates == CompatiblePool(Without(pool, group), group)
    IN  IF Len(group) >= k \/ candidates = <<>> THEN group
        ELSE AlternatingGroup(
                Append(group, IF from_front THEN candidates[1]
                              ELSE candidates[Len(candidates)]),
                pool, k, ~from_front)

\* C19: every group FirstToLast yields is built from the mutations remaining
\* before it by picks taken alternately from the front and from the back of
\* the compatible candidates, the first pick of every group from the front;
\* while a group is built the next pick is from the front exactly when an
\* even number of picks was made; and with order 2 a group is the first
\* remaining mutation followed by the last remaining mutation compatible
\* with it, or the first remaining mutation alone when there is none.
C19_FirstToLastAlternates ==
    strategy = "FIRST_TO_LAST" =>
        /\ hpc = "inner" => index = (IF Len(mutations_to_apply) % 2 = 0 THEN 0 ELSE -1)
        /\ \A g \in DOMAIN groups :
              LET remaining == Without(input, Flatten(SubSeq(groups, 1, g - 1)))
                  partners  == CompatiblePool(Tail(remaining), <<remaining[1]>>)
              IN  /\ remaining # <<>>
                  /\ groups[g] = AlternatingGroup(<<>>, remaining, order, TRUE)
                  /\ order = 2 =>
                        groups[g] = IF partners = <<>> THEN <<remaining[1]>>
                                    ELSE <<remaining[1], partners[Len(partners)]>>

\* with order 3, FirstToLast has yielded a group of three whose second
\* mutation is the last of the input and whose third lies between the others
C19_Witness ==
    /\ strategy = "FIRST_TO_LAST"
    /\ order = 3
    /\ Len(input) = 3
    /\ groups # <<>>
    /\ groups[1] = <<input[1], input[3], input[2]>>

(* ------------------------------------------------------------------ *)
(* Properties of MutationScore                                         *)
(* ------------------------------------------------------------------ *)

\* C13: what count() returns is (killed + timeout) / (all_mutants -
\* incompetent) * 100 when that bottom is not zero and 0 when it is zero, as
\* on a fresh score or when every mutant is incompetent; it lies between 0
\* and 100; and a call of count() changes no counter.
C13_CountIsPercentage ==
    /\ [](counted =>
            LET bottom == all_mutants(score) - score.incompetent_mutants
            IN  /\ count_result.den > 0
                /\ bottom # 0 =>
                      count_result.num * bottom
                          = (score.killed_mutants + score.timeout_mutants) * 100
                                * count_result.den
                /\ bottom = 0 => count_result.num = 0
                /\ score = MutationScore => count_result.num = 0
                /\ all_mutants(score) = score.incompetent_mutants => count_result.num = 0
                /\ count_result.num >= 0
                /\ count_result.num <= 100 * count_result.den)
    /\ [][counted' => score' = score]_vars

\* count() was called after two killed, one survived and one incompetent
\* mutant: 200 / 3
C13_Witness ==
    /\ counted
    /\ score.killed_mutants = 2
    /\ score.survived_mutants = 1
    /\ score.incompetent_mutants = 1
    /\ score.timeout_mutants = 0
    /\ count_result = [num |-> 200, den |-> 3]

(* ------------------------------------------------------------------ *)
(* Properties of the isolated execution                                *)
(* ------------------------------------------------------------------ *)

\* the sum of a list of numbers
RECURSIVE SumSeq(_)
SumSeq(ds) == IF ds = <<>> THEN 0 ELSE SumSeq(SubSeq(ds, 1, Len(ds) - 1)) + ds[Len(ds)]

\* the child has not reported a result when the deadline passes
DeadlineMissed == child_hangs \/ child_time > live_time

\* C12: the deadline handed to get_result is timeout_factor * max(1, D), D
\* the sum of the baseline durations of all test modules, which is
\* timeout_factor when D <= 1; get_result blocks no longer than that; a
\* mutant whose child has not reported by the deadline gets no result and is
\* classified Timeout, and one whose child reported earlier is not; and
\* whenever the execution is over, the calls made on the child are start,
\* get_result, terminate, in this order, whether or not a result arrived.
C12_DeadlineAndTerminate ==
    LET D == SumSeq(durations)
    IN  /\ process # <<>> =>
              /\ live_time = timeout_factor * (IF D >= 1 THEN D ELSE 1)
              /\ D <= 1 => live_time = timeout_factor
        /\ Len(process) >= 2 => waited <= live_time
        /\ pc = "update_score_and_notify_views" =>
              /\ process = <<"start", "get_result", "terminate">>
              /\ DeadlineMissed => result.is_none
              /\ (~child_hangs /\ child_time < live_time) => ~result.is_none
        /\ (pc = "mutants" /\ started = 1) =>
              /\ process = <<"start", "get_result", "terminate">>
              /\ DeadlineMissed =>
                    /\ score.timeout_mutants = 1
                    /\ notified["timeout"] = 1
                    /\ all_mutants(score) = 1
              /\ (~child_hangs /\ child_time < live_time) =>
                    /\ score.timeout_mutants = 0
                    /\ notified["timeout"] = 0

\* two test modules of one second each, factor 5: the child never reports,
\* get_result blocks for 10 seconds, terminate is called and the mutant is
\* classified Timeout
C12_Witness ==
    /\ pc = "mutants"
    /\ durations = <<1, 1>>
    /\ timeout_factor = 5
    /\ child_hangs
    /\ live_time = 10
    /\ waited = 10
    /\ process = <<"start", "get_result", "terminate">>
    /\ score.timeout_mutants = 1

(* ------------------------------------------------------------------ *)
(* Properties of the coverage pruning                                  *)
(* ------------------------------------------------------------------ *)

\* the test cases of a suite, at any depth
RECURSIVE TestCasesOf(_)
TestCasesOf(tests) ==
    IF ~tests.iterable THEN {tests.id}
    ELSE UNION {TestCasesOf(tests.tests[i]) : i \in DOMAIN tests.tests}

\* the suite holds test case `id` inside a sub-suite
IsNested(id) ==
    \E i \in DOMAIN suite.tests :
        suite.tests[i].iterable /\ id \in TestCasesOf(suite.tests[i])

\* C14: once run_tests_with_mutant is past the marking, with coverage data a
\* test case of the suite, at any depth, is marked skipped exactly when no
\* node marker of the mutant's mutations is in its covered set; nothing but
\* test cases of the suite is marked; and without coverage data nothing is
\* marked.
C14_SkippedIffNotCovered ==
    marked =>
        LET markers == {m.node : m \in Range(mutant_mutations)}
        IN  /\ skipped \subseteq TestCasesOf(suite)
            /\ mutate_covered =>
                  \A id \in TestCasesOf(suite) :
                      id \in skipped <=>
                          \A marker \in markers : marker \notin test_covered_nodes[id]
            /\ ~mutate_covered => skipped = {}

\* with coverage data, a test case inside a sub-suite is marked skipped and
\* another test case, covering one of two mutated nodes, is left runnable
C14_Witness ==
    /\ marked
    /\ mutate_covered
    /\ Len(mutant_mutations) = 2
    /\ \E id \in skipped : IsNested(id)
    /\ \E id \in TestCasesOf(suite) \ skipped :
          /\ test_covered_nodes[id] # {}
          /\ \E m \in Range(mutant_mutations) : m.node \notin test_covered_nodes[id]

(* ------------------------------------------------------------------ *)
(* Properties of HighOrderMutator.mutate                               *)
(* ------------------------------------------------------------------ *)

\* the ids of a list of mutations
Ids(list) == [i \in DOMAIN list |-> list[i].id]

\* the first n elements of a list, last first
LastFirst(list, n) == [i \in 1..n |-> list[Len(list) + 1 - i]]

\* C16: for the group requested last, the replays started so far are those
\* of its mutations in group order, each started on the AST the replays
\* before it produced, the first on the target's AST; the pair yielded for
\* the group holds the group's mutations, as many as the group has, and that
\* AST; after the resume the replays are finished last started first, and
\* all of them are finished when the next group is requested; and
\* after a replay that gave no mutation no pair is yielded for the group,
\* after one that gave a further mutation when finished no further group is
\* requested: an AssertionError is raised.
C16_ApplyInOrderFinishInReverse ==
    /\ Len(pairs) <= requested
    /\ assertion # "" <=> mpc = "assertion_error"
    /\ mpc = "done" => Len(pairs) = Len(hom_groups) /\ requested = Len(hom_groups)
    /\ requested >= 1 =>
          LET group == hom_groups[requested]
              n     == Len(generators)
          IN  /\ n <= Len(group)
              /\ \A i \in 1..n :
                    /\ generators[i].mutation = group[i].id
                    /\ generators[i].ast = Ids(SubSeq(group, 1, i - 1))
              /\ applied_mutations = SubSeq(group, 1, n)
              /\ mutant = Ids(SubSeq(group, 1, n))
              /\ mpc \in {"yielded", "finish", "next_group", "done"} =>
                    /\ Len(pairs) = requested
                    /\ pairs[requested].mutations = group
                    /\ Len(pairs[requested].mutations) = Len(group)
                    /\ pairs[requested].mutant = Ids(group)
              /\ mpc = "apply" => Len(pairs) = requested - 1 /\ finished = <<>>
              /\ mpc = "yielded" => finished = <<>>
              /\ Len(finished) <= Len(group)
              /\ finished = LastFirst(Ids(group), Len(finished))
              /\ mpc \in {"next_group", "done"} => Len(finished) = Len(group)
              /\ (mpc = "assertion_error" /\ assertion = "no mutations!") =>
                    /\ n < Len(group)
                    /\ Len(pairs) = requested - 1
              /\ (mpc = "assertion_error" /\ assertion = "too many mutations!") =>
                    /\ Len(pairs) = requested
                    /\ Len(finished) < Len(group)

\* a group of three mutations was yielded as one mutant and its replays were
\* finished third, second, first; the next group is about to be requested
C16_Witness ==
    /\ mpc = "next_group"
    /\ requested = 1
    /\ Len(hom_groups) = 1
    /\ Len(hom_groups[1]) = 3
    /\ Len(pairs) = 1
    /\ pairs[1].mutant = Ids(hom_groups[1])
    /\ finished = <<hom_groups[1][3].id, hom_groups[1][2].id, hom_groups[1][1].id>>

====
